---- MODULE Spec2Model ----
(***************************************************************************)
(* The prompt library of src/prompt_app.py as a state machine.             *)
(*                                                                         *)
(* The program is a Streamlit script: every user event (a click, a form    *)
(* submit, an upload) runs the script top to bottom against the session    *)
(* state: tab 1 (browse: Use / Favorite / Edit), tab 2 (the edit form, or  *)
(* the add form and the delete box), tab 3 (export, import of the file in  *)
(* the uploader).  st.experimental_rerun() abandons the run and starts a   *)
(* new one with no event.  One action below is one event's handler; when a *)
(* file sits in the uploader the run's tab 3 part is the step Tab3Import,  *)
(* which pc = "tab3" forces before the next event.                         *)
(*                                                                         *)
(* A Python dict is a sequence of entries in insertion order; a missing    *)
(* session key is the empty sequence, a present one a sequence of length 1.*)
(* Identifiers (uuid4 strings) are integers, timestamps (ISO strings of    *)
(* datetime.now()) are readings of an integer clock.                       *)
(***************************************************************************)
EXTENDS Integers, Sequences, FiniteSets, TLC

VARIABLES
    prompts,               \* st.session_state.prompts: category -> list of records
    all_tags,              \* st.session_state.all_tags
    edit_prompt,           \* st.session_state.edit_prompt (snapshot of the record being edited)
    edit_prompt_category,  \* st.session_state.edit_prompt_category
    current_prompt,        \* st.session_state.current_prompt
    uploaded_file,         \* the document in the file uploader of tab 3
    file_read,             \* whether the uploader's buffer has been read by json.load
    clock,                 \* the last value datetime.datetime.now() returned
    next_uuid,             \* the next identifier uuid.uuid4() returns
    message,               \* what the last handler reported (st.error, st.success, st.toast, an exception)
    pc,                    \* "idle": waiting for an event; "tab3": the run is about to execute tab 3
    search_query,          \* st.session_state.search_query: the text of "Search prompts"
    filter_favorites,      \* st.session_state.filter_favorites: the "Favorites" checkbox
    filter_tags,           \* st.session_state.filter_tags: the tags selected in "Select tags"
    selected_category,     \* st.session_state.selected_category
    category_choice,       \* what the user chose in the "Category" box of tab 1, if anything
    download,              \* the json_str of the last "Export Prompts" (line 455), if any
    matches,               \* main's matches: what re.findall returned on the last run (line 536)
    placeholders,          \* main's placeholders: name -> text typed, in insertion order (line 540)
    events,                \* number of user events so far
    adds                   \* number of submits of the add form so far

vars == <<prompts, all_tags, edit_prompt, edit_prompt_category, current_prompt,
          uploaded_file, file_read, clock, next_uuid, message, pc, download,
          search_query, filter_favorites, filter_tags, selected_category,
          category_choice, matches, placeholders, events, adds>>

\* the widgets of "Search & Filter" in tab 1
browse == <<search_query, filter_favorites, filter_tags, selected_category, category_choice>>

\* the placeholder fields of the chat pane
chat == <<matches, placeholders>>

(***************************************************************************)
(* Bounds of the model.                                                    *)
(***************************************************************************)
MaxEvents == 3
MaxAdds == 1
MaxClock == 1

(***************************************************************************)
(* Python dict, as a sequence of [cat, recs] entries in insertion order.   *)
(***************************************************************************)
Keys(d) == {d[i].cat : i \in 1..Len(d)}

Has(d, c) == \E i \in 1..Len(d) : d[i].cat = c

Idx(d, c) == CHOOSE i \in 1..Len(d) : d[i].cat = c

Get(d, c) == d[Idx(d, c)].recs

\* d[c] = v for a list v: the key keeps its place, a new key goes last
Put(d, c, v) ==
    IF Has(d, c) THEN [d EXCEPT ![Idx(d, c)] = [cat |-> c, recs |-> v]]
    ELSE Append(d, [cat |-> c, recs |-> v])

\* A value json.load returned that is not of the expected Python type carries
\* the field json, naming its JSON type: a category whose value is the empty
\* string is [cat |-> c, recs |-> <<>>, json |-> "string"] (recs: the items
\* a for loop over the value meets, none), an entry of a list that is a
\* number is [json |-> "number"].
IsList(e) == "json" \notin DOMAIN e

IsMapping(r) == "json" \notin DOMAIN r

\* d[c].append(...) works: the value of c is a list (a str has no append)
Appendable(d, c) == IsList(d[Idx(d, c)])

Del(d, c) == SelectSeq(d, LAMBDA e : e.cat /= c)

Range(s) == {s[i] : i \in 1..Len(s)}

\* every record of the store, over all categories
AllRecords(d) == UNION {Range(d[i].recs) : i \in 1..Len(d)}

(***************************************************************************)
(* The clock and the identifier source.                                    *)
(***************************************************************************)
Ticks == {0, 1}

\* datetime.datetime.now(): a reading no smaller than the previous one
Now(c, d) == IF c + d <= MaxClock THEN c + d ELSE c

\* the first identifier uuid4 hands out after the five of the default store
FirstFreshId == 6

\* a "version" value that is not a number (JSON string, null): `+ 1` raises TypeError on it
StrVersion == -1

IsNumber(v) == v /= StrVersion

(***************************************************************************)
(* load_prompts: the default store.                                        *)
(***************************************************************************)
DefaultRecord(id, name, description, prompt, tags, t) ==
    [id |-> id, name |-> name, description |-> description, prompt |-> prompt,
     tags |-> tags, created_at |-> t, updated_at |-> t,
     version |-> 1, favorite |-> FALSE, usage_count |-> 0]

default_prompts ==
    << [cat |-> "Writing", recs |-> <<
          DefaultRecord(1, "Essay Outline",
              "Creates a detailed essay outline on any topic",
              "Create a detailed essay outline on {topic}. Include introduction, main points with supporting evidence, and conclusion.",
              <<"academic", "writing", "organization">>, 0) >>],
       [cat |-> "Analysis", recs |-> <<
          DefaultRecord(2, "Data Analysis Plan",
              "Helps plan data analysis approach",
              "I need to analyze {dataset_description}. Please create a step-by-step plan for analyzing this data, including preprocessing steps, analysis methods, and visualization approaches.",
              <<"data", "planning", "research">>, 0) >>],
       [cat |-> "Coding", recs |-> <<
          DefaultRecord(3, "Code Improvement",
              "Suggests improvements for code",
              "Review this code and suggest improvements for readability, efficiency, and best practices: {code}",  \* the code fence around {code} is left out
              <<"coding", "review", "optimization">>, 0) >>],
       [cat |-> "Claude Specific", recs |-> <<
          DefaultRecord(4, "XML Tags Structure",
              "Ask Claude to use specific XML tags in responses",
              "Please structure your response using the following XML tags: <{tag_name}>. Each section should be clearly marked.",
              <<"claude", "formatting", "structure">>, 0),
          DefaultRecord(5, "Step-by-Step Reasoning",
              "Ask Claude to use step-by-step reasoning",
              "Please solve this problem using step-by-step reasoning. Think about each part of the problem separately before providing your final answer: {problem}",
              <<"claude", "reasoning", "problem-solving">>, 0) >>] >>

\* the union of the tags of all records (the loops that rebuild all_tags)
RegenerateTags(d) == UNION {Range(r.tags) : r \in AllRecords(d)}

\* line 106: list(st.session_state.prompts.keys())[0] if st.session_state.prompts else None
FirstKey(d) == IF d = <<>> THEN <<>> ELSE <<d[1].cat>>

(***************************************************************************)
(* The state after the first run of prompt_library() in a new session:     *)
(* the default store, no edit, no selected prompt, nothing uploaded.  The  *)
(* construction's clock readings are one instant, 0.                       *)
(***************************************************************************)
Init ==
    /\ prompts = default_prompts
    /\ all_tags = RegenerateTags(default_prompts)
    /\ edit_prompt = <<>>
    /\ edit_prompt_category = <<>>
    /\ current_prompt = <<>>
    /\ uploaded_file = <<>>
    /\ file_read = FALSE
    /\ clock = 0
    /\ next_uuid = FirstFreshId
    /\ message = ""
    /\ pc = "idle"
    /\ download = <<>>
    /\ matches = <<>>
    /\ placeholders = <<>>
    /\ search_query = <<>>
    /\ filter_favorites = FALSE
    /\ filter_tags = {}
    /\ selected_category = FirstKey(default_prompts)
    /\ category_choice = <<>>
    /\ events = 0
    /\ adds = 0

(***************************************************************************)
(* How a run goes on after the handlers of tab 1 and tab 2.                *)
(***************************************************************************)
\* line 264: existing_categories.index(edit_prompt_category) raises ValueError
\* when an edit is pending and its category is no key of the store; the run
\* ends there, before the form's buttons and before tab 3
EditFormCrashes(p, ep, epc) == ep /= <<>> /\ ~Has(p, epc[1])

\* the run reaches tab 3's import when a file is in the uploader and tab 2 did not raise
AfterTab2(p, ep, epc, up) ==
    IF up /= <<>> /\ ~EditFormCrashes(p, ep, epc) THEN "tab3" ELSE "idle"

\* a user event can start a run
Event ==
    /\ pc = "idle"
    /\ events < MaxEvents
    /\ events' = events + 1

\* an event other than a submit of the add form
OtherEvent == Event /\ UNCHANGED adds

\* index of the first record of a list with the given id (the for ... break loops)
FirstWithId(recs, id) == CHOOSE i \in 1..Len(recs) :
    /\ recs[i].id = id
    /\ \A j \in 1..(i - 1) : recs[j].id /= id

(***************************************************************************)
(* Tab 1: the buttons of a displayed record (category c, position i).      *)
(***************************************************************************)
\* a variant that records the first use whatever the count was
UsedOnce(p) == [p EXCEPT !.usage_count = 1]

\* line 220: p['usage_count'] = p.get('usage_count', 0) + 1
Used(p) == [p EXCEPT !.usage_count = @ + 1]

\* a variant that sets the flag instead of flipping it
MadeFavorite(p) == [p EXCEPT !.favorite = TRUE]

\* line 234: p['favorite'] = not p.get('favorite', False)
Toggled(p) == [p EXCEPT !.favorite = ~@]

\* "Use Prompt", lines 214-224
UsePrompt(c, i) ==
    /\ OtherEvent
    /\ Has(prompts, c) /\ i \in 1..Len(Get(prompts, c))
    /\ LET prompt == Get(prompts, c)[i]
           k == FirstWithId(Get(prompts, c), prompt.id)
           new == Put(prompts, c,
                      [Get(prompts, c) EXCEPT ![k] = Used(@)])
       IN /\ current_prompt' = <<prompt.prompt>>
          /\ prompts' = new
          /\ message' = "Prompt selected"
          /\ pc' = AfterTab2(new, edit_prompt, edit_prompt_category, uploaded_file)
    /\ UNCHANGED <<all_tags, edit_prompt, edit_prompt_category, uploaded_file,
                   file_read, clock, next_uuid>>
    /\ UNCHANGED <<download, browse, chat>>

\* "Favorite" / "Unfavorite", lines 226-237
ToggleFavorite(c, i) ==
    /\ OtherEvent
    /\ Has(prompts, c) /\ i \in 1..Len(Get(prompts, c))
    /\ LET prompt == Get(prompts, c)[i]
           k == FirstWithId(Get(prompts, c), prompt.id)
           new == Put(prompts, c,
                      [Get(prompts, c) EXCEPT ![k] = Toggled(@)])
       IN /\ prompts' = new
          /\ message' = ""
          /\ pc' = AfterTab2(new, edit_prompt, edit_prompt_category, uploaded_file)
    /\ UNCHANGED <<all_tags, edit_prompt, edit_prompt_category, current_prompt,
                   uploaded_file, file_read, clock, next_uuid>>
    /\ UNCHANGED <<download, browse, chat>>

\* prompt_with_category: the displayed copy of a record, lines 186-187
WithCategory(prompt, c) ==
    [id |-> prompt.id, name |-> prompt.name, description |-> prompt.description,
     prompt |-> prompt.prompt, tags |-> prompt.tags,
     created_at |-> prompt.created_at, updated_at |-> prompt.updated_at,
     version |-> prompt.version, favorite |-> prompt.favorite,
     usage_count |-> prompt.usage_count, category |-> c]

\* "Edit", lines 240-243
EditClick(c, i) ==
    /\ OtherEvent
    /\ Has(prompts, c) /\ i \in 1..Len(Get(prompts, c))
    /\ edit_prompt' = <<WithCategory(Get(prompts, c)[i], c)>>
    /\ edit_prompt_category' = <<c>>
    /\ message' = ""
    /\ pc' = AfterTab2(prompts, edit_prompt', edit_prompt_category', uploaded_file)
    /\ UNCHANGED <<prompts, all_tags, current_prompt, uploaded_file, file_read,
                   clock, next_uuid>>
    /\ UNCHANGED <<download, browse, chat>>

(***************************************************************************)
(* Text inputs.  A "Tags (comma separated)" input is the sequence of its   *)
(* comma-separated pieces; a piece is its text without the blanks around   *)
(* it (core) and whether blanks surround it (padded).                      *)
(***************************************************************************)
Piece(core, padded) == [core |-> core, padded |-> padded]

\* tag.strip()
Strip(piece) == piece.core

\* [tag.strip() for tag in text.split(",") if tag.strip()], lines 286 and 381
ParseTags(pieces) ==
    LET kept == SelectSeq(pieces, LAMBDA q : Strip(q) /= "")
    IN [i \in 1..Len(kept) |-> Strip(kept[i])]

\* ", ".join(current_tags), line 259, as the pieces split(",") finds in it
TagsString(tags) ==
    IF tags = <<>> THEN <<Piece("", FALSE)>>
    ELSE [i \in 1..Len(tags) |-> Piece(tags[i], i > 1)]

\* the input "summary, ,writing "
TypedTags == <<Piece("summary", FALSE), Piece("", TRUE), Piece("writing", TRUE)>>

\* what the user types into the add form's tags: nothing, or TypedTags
TagInputs == {<<Piece("", FALSE)>>, TypedTags}

\* names typed into the add form: empty, blank, proper
NameInputs == {"", " ", "Summary"}

\* bodies typed into the add form: empty, proper
BodyInputs == {"", "Summarize {text}"}

\* the "New Category Name" typed into the add form
CategoryInputs == {"Drafts"}

(***************************************************************************)
(* Tab 2 with an edit pending: the edit form, lines 249-345.               *)
(***************************************************************************)
\* "Clean up empty categories", lines 323-325
CleanUp(d) == SelectSeq(d, LAMBDA e : e.recs /= <<>>)

\* the store after "Remove from original category", line 293
RemoveFromOriginal(d, original_category, prompt_id) ==
    Put(d, original_category,
        SelectSeq(Get(d, original_category), LAMBDA p : p.id /= prompt_id))

\* updated_prompt, lines 296-313: updated_at is read first (t_updated), the
\* created_at of a new version after it (t_created)
UpdatedPrompt(snap, edit_name, edit_description, edit_body, parsed_tags, increment_version, t_updated, t_created) ==
    [id |-> snap.id, name |-> edit_name, description |-> edit_description,
     prompt |-> edit_body, tags |-> parsed_tags, updated_at |-> t_updated,
     favorite |-> snap.favorite, usage_count |-> snap.usage_count,
     version |-> IF increment_version THEN snap.version + 1 ELSE snap.version,
     created_at |-> IF increment_version THEN t_created ELSE snap.created_at]

\* "Save Changes", lines 281-340
SaveEdit(edit_name, edit_body, edit_tags, edit_category, increment_version, d1, d2) ==
    /\ OtherEvent
    /\ edit_prompt /= <<>>
    /\ ~EditFormCrashes(prompts, edit_prompt, edit_prompt_category)
    /\ edit_category \in Keys(prompts)
    /\ LET snap == edit_prompt[1]
           original_category == edit_prompt_category[1]
           removed == RemoveFromOriginal(prompts, original_category, snap.id)
           t_updated == Now(clock, d1)
           t_created == Now(t_updated, d2)
           updated == UpdatedPrompt(snap, edit_name, snap.description, edit_body,
                                    ParseTags(edit_tags), increment_version,
                                    t_updated, t_created)
           appended == Put(removed, edit_category,
                           Append(IF Has(removed, edit_category)
                                  THEN Get(removed, edit_category) ELSE <<>>, updated))
           new == CleanUp(appended)
       IN IF edit_name = "" \/ edit_body = ""
          THEN \* line 283: nothing is touched; the run goes on to tab 3
               /\ message' = "Name and prompt are required"
               /\ pc' = AfterTab2(prompts, edit_prompt, edit_prompt_category, uploaded_file)
               /\ UNCHANGED <<prompts, all_tags, edit_prompt, edit_prompt_category, clock>>
          ELSE IF increment_version /\ ~IsNumber(snap.version)
          THEN \* line 309 raises TypeError, after line 293 and the clock reading of line 302
               /\ prompts' = removed
               /\ clock' = t_updated
               /\ message' = "TypeError"
               /\ pc' = "idle"
               /\ UNCHANGED <<all_tags, edit_prompt, edit_prompt_category>>
          ELSE IF ~Appendable(removed, edit_category)
          THEN \* line 320 raises AttributeError, after line 293 and the clock readings
               /\ prompts' = removed
               /\ clock' = t_created
               /\ message' = "AttributeError"
               /\ pc' = "idle"
               /\ UNCHANGED <<all_tags, edit_prompt, edit_prompt_category>>
          ELSE /\ prompts' = new
               /\ all_tags' = RegenerateTags(new)
               /\ edit_prompt' = <<>>
               /\ edit_prompt_category' = <<>>
               /\ clock' = t_created
               /\ message' = "Prompt updated successfully"
               /\ pc' = AfterTab2(new, <<>>, <<>>, uploaded_file)
    /\ UNCHANGED <<current_prompt, uploaded_file, file_read, next_uuid>>
    /\ UNCHANGED <<download, browse, chat>>

\* "Cancel", lines 342-345
CancelEdit ==
    /\ OtherEvent
    /\ edit_prompt /= <<>>
    /\ ~EditFormCrashes(prompts, edit_prompt, edit_prompt_category)
    /\ edit_prompt' = <<>>
    /\ edit_prompt_category' = <<>>
    /\ message' = ""
    /\ pc' = AfterTab2(prompts, <<>>, <<>>, uploaded_file)
    /\ UNCHANGED <<prompts, all_tags, current_prompt, uploaded_file, file_read,
                   clock, next_uuid>>
    /\ UNCHANGED <<download, browse, chat>>

(***************************************************************************)
(* Tab 2 without an edit pending: the add form and the delete box.         *)
(***************************************************************************)
\* new_prompt_obj, lines 384-395: created_at is read before updated_at
NewPromptObj(id, new_name, new_description, new_body, parsed_tags, favorite, t_created, t_updated) ==
    [id |-> id, name |-> new_name, description |-> new_description,
     prompt |-> new_body, tags |-> parsed_tags, created_at |-> t_created,
     updated_at |-> t_updated, version |-> 1, favorite |-> favorite,
     usage_count |-> 0]

\* lines 377-378: the category is created when it is no key of the store
WithNewCategory(d, new_category) ==
    IF Has(d, new_category) THEN d ELSE Append(d, [cat |-> new_category, recs |-> <<>>])

\* a variant that puts the new object in front of its category
StoreAfterAddInFront(d, new_category, obj) ==
    Put(WithNewCategory(d, new_category), new_category,
        <<obj>> \o Get(WithNewCategory(d, new_category), new_category))

\* lines 377-397: the store with the new object appended to its category
StoreAfterAdd(d, new_category, obj) ==
    Put(WithNewCategory(d, new_category), new_category,
        Append(Get(WithNewCategory(d, new_category), new_category), obj))

\* "Add Prompt", lines 372-406
AddPrompt(new_name, new_body, new_tags, new_category, favorite, d1, d2) ==
    /\ Event /\ adds < MaxAdds /\ adds' = adds + 1
    /\ edit_prompt = <<>>
    /\ new_category \in Keys(prompts) \cup CategoryInputs
    /\ LET parsed_tags == ParseTags(new_tags)
           t_created == Now(clock, d1)
           t_updated == Now(t_created, d2)
           obj == NewPromptObj(next_uuid, new_name, "", new_body, parsed_tags,
                               favorite, t_created, t_updated)
           with_category == WithNewCategory(prompts, new_category)
           new == StoreAfterAdd(prompts, new_category, obj)
       IN IF new_name = "" \/ new_body = ""
          THEN /\ message' = "Name and prompt are required"
               /\ pc' = AfterTab2(prompts, <<>>, <<>>, uploaded_file)
               /\ UNCHANGED <<prompts, all_tags, clock, next_uuid>>
          ELSE IF ~Appendable(with_category, new_category)
          THEN \* line 397 raises AttributeError, after the object of lines 384-395 was built
               /\ clock' = t_updated
               /\ next_uuid' = next_uuid + 1
               /\ message' = "AttributeError"
               /\ pc' = "idle"
               /\ UNCHANGED <<prompts, all_tags>>
          ELSE /\ prompts' = new
               /\ all_tags' = all_tags \cup Range(parsed_tags)
               /\ clock' = t_updated
               /\ next_uuid' = next_uuid + 1
               /\ message' = "Added"
               /\ pc' = AfterTab2(new, <<>>, <<>>, uploaded_file)
    /\ UNCHANGED <<edit_prompt, edit_prompt_category, current_prompt,
                   uploaded_file, file_read>>
    /\ UNCHANGED <<download, browse, chat>>

\* lines 427-432: the records of the category with that id are removed, and
\* the category when nothing is left in it
StoreAfterDelete(d, c, prompt_id) ==
    LET kept == SelectSeq(Get(d, c), LAMBDA p : p.id /= prompt_id)
    IN IF kept = <<>> THEN Del(d, c) ELSE Put(d, c, kept)

\* "Delete Prompt", lines 424-445, for the entry (category c, position i) of the box
DeletePrompt(c, i) ==
    /\ OtherEvent
    /\ edit_prompt = <<>>
    /\ Has(prompts, c) /\ i \in 1..Len(Get(prompts, c))
    /\ LET prompt_id == Get(prompts, c)[i].id
           new == StoreAfterDelete(prompts, c, prompt_id)
       IN /\ prompts' = new
          /\ all_tags' = RegenerateTags(new)
          /\ message' = "Deleted"
          /\ pc' = AfterTab2(new, <<>>, <<>>, uploaded_file)
    /\ UNCHANGED <<edit_prompt, edit_prompt_category, current_prompt,
                   uploaded_file, file_read, clock, next_uuid>>
    /\ UNCHANGED <<download, browse, chat>>

(***************************************************************************)
(* Tab 3: the documents a user uploads, and the import, lines 463-506.     *)
(* A document is what json.load returns: kind "dict" with its categories   *)
(* in order, or kind "list".  An entry holds the fields its JSON object    *)
(* holds.                                                                  *)
(***************************************************************************)
\* a JSON array at the top level, [1, 2, 3]
DocList == [kind |-> "list", cats |-> <<>>]

\* a hand-written document: an entry whose version is written as a string,
\* an entry with only name, description and prompt, and a category with no
\* entries
DocBackup ==
    [kind |-> "dict", cats |-> <<
        [cat |-> "Writing", recs |-> <<
            [id |-> 4, name |-> "Imported", description |-> "", prompt |-> "Hello {x}",
             tags |-> <<"legacy">>, version |-> StrVersion],
            [name |-> "Note", description |-> "", prompt |-> "Note {x}"] >>],
        [cat |-> "Empty", recs |-> <<>>] >>]

\* an export of this library taken at another time (export and import keep
\* the ids): record 1 sits in "Archive" there, at version 3, a favorite,
\* used twice
DocMoved ==
    [kind |-> "dict", cats |-> <<
        [cat |-> "Writing", recs |-> <<
            [id |-> 2, name |-> "Data Analysis Plan", description |-> "",
             prompt |-> "Analyze {dataset_description}", tags |-> <<"data">>,
             created_at |-> 0, updated_at |-> 0, version |-> 1,
             favorite |-> FALSE, usage_count |-> 0] >>],
        [cat |-> "Archive", recs |-> <<
            [id |-> 1, name |-> "Essay Outline", description |-> "",
             prompt |-> "Outline {topic}", tags |-> <<"academic">>,
             created_at |-> 0, updated_at |-> 0, version |-> 3,
             favorite |-> TRUE, usage_count |-> 2] >>] >>]

\* a document in which two entries carry the same id.  (Tab 1 keys its
\* buttons by id, lines 214-240, so a later run raises DuplicateWidgetID when
\* it displays both; the browse filters, which decide what is displayed, are
\* not part of this model, and the handlers stay enabled.)
DocDup ==
    [kind |-> "dict", cats |-> <<
        [cat |-> "Shared", recs |-> <<
            [id |-> 3, name |-> "Copy A", description |-> "", prompt |-> "A"],
            [id |-> 3, name |-> "Copy B", description |-> "", prompt |-> "B",
             tags |-> <<"copy">>, favorite |-> TRUE] >>] >>]

\* a document whose second entry is a number: the first entry is normalized,
\* then line 476 raises
DocPartial ==
    [kind |-> "dict", cats |-> <<
        [cat |-> "Writing", recs |-> <<
            [name |-> "Note", description |-> "", prompt |-> "Note {x}"],
            [json |-> "number"] >>] >>]

\* a document in which a category's value is the empty string, {"Notes": ""}
DocLoose ==
    [kind |-> "dict", cats |-> <<
        [cat |-> "Notes", recs |-> <<>>, json |-> "string"] >>]

Docs == {DocList, DocBackup, DocMoved, DocDup, DocPartial, DocLoose}

\* a variant that sets the version to 1 whether the entry holds one or not
NormalizeEntryResetsVersion(r, uuid, t_created, t_updated) ==
    [id |-> IF "id" \in DOMAIN r THEN r.id ELSE uuid,
     name |-> r.name, description |-> r.description, prompt |-> r.prompt,
     created_at |-> IF "created_at" \in DOMAIN r THEN r.created_at ELSE t_created,
     updated_at |-> IF "updated_at" \in DOMAIN r THEN r.updated_at ELSE t_updated,
     version |-> 1,
     tags |-> IF "tags" \in DOMAIN r THEN r.tags ELSE <<>>,
     favorite |-> IF "favorite" \in DOMAIN r THEN r.favorite ELSE FALSE,
     usage_count |-> IF "usage_count" \in DOMAIN r THEN r.usage_count ELSE 0]

\* lines 476-489 for one entry: a field the entry holds is kept, a missing one
\* gets its default (uuid: the next identifier; the two clock readings)
NormalizeEntry(r, uuid, t_created, t_updated) ==
    [id |-> IF "id" \in DOMAIN r THEN r.id ELSE uuid,
     name |-> r.name, description |-> r.description, prompt |-> r.prompt,
     created_at |-> IF "created_at" \in DOMAIN r THEN r.created_at ELSE t_created,
     updated_at |-> IF "updated_at" \in DOMAIN r THEN r.updated_at ELSE t_updated,
     version |-> IF "version" \in DOMAIN r THEN r.version ELSE 1,
     tags |-> IF "tags" \in DOMAIN r THEN r.tags ELSE <<>>,
     favorite |-> IF "favorite" \in DOMAIN r THEN r.favorite ELSE FALSE,
     usage_count |-> IF "usage_count" \in DOMAIN r THEN r.usage_count ELSE 0]

\* the inner loop of lines 474-489 over one category's entries, threading the
\* clock and the identifier source: [recs, clk, uuid, ok].  An entry that is
\* no mapping makes line 476 raise TypeError (ok is FALSE, clk and uuid are as
\* the entries before it left them).
RECURSIVE NormalizeList(_, _, _, _, _)
NormalizeList(rs, clk, uuid, d1, d2) ==
    IF rs = <<>> THEN [recs |-> <<>>, clk |-> clk, uuid |-> uuid, ok |-> TRUE]
    ELSE IF ~IsMapping(Head(rs))
    THEN [recs |-> <<>>, clk |-> clk, uuid |-> uuid, ok |-> FALSE]
    ELSE LET r == Head(rs)
             t_created == IF "created_at" \in DOMAIN r THEN clk ELSE Now(clk, d1)
             t_updated == IF "updated_at" \in DOMAIN r THEN t_created
                          ELSE Now(t_created, d2)
             rest == NormalizeList(Tail(rs), t_updated,
                                   IF "id" \in DOMAIN r THEN uuid ELSE uuid + 1,
                                   d1, d2)
         IN [recs |-> <<NormalizeEntry(r, uuid, t_created, t_updated)>> \o rest.recs,
             clk |-> rest.clk, uuid |-> rest.uuid, ok |-> rest.ok]

\* the outer loop of line 473 over the document's categories: [cats, clk, uuid, ok].
\* A category's value is iterated whatever its type; its entries are
\* normalized in place, the value itself is kept as it is.
RECURSIVE NormalizeDoc(_, _, _, _, _)
NormalizeDoc(cs, clk, uuid, d1, d2) ==
    IF cs = <<>> THEN [cats |-> <<>>, clk |-> clk, uuid |-> uuid, ok |-> TRUE]
    ELSE LET first == NormalizeList(Head(cs).recs, clk, uuid, d1, d2)
             rest == NormalizeDoc(Tail(cs), first.clk, first.uuid, d1, d2)
         IN IF ~first.ok
            THEN [cats |-> <<>>, clk |-> first.clk, uuid |-> first.uuid, ok |-> FALSE]
            ELSE [cats |-> <<[Head(cs) EXCEPT !.recs = first.recs]>> \o rest.cats,
                  clk |-> rest.clk, uuid |-> rest.uuid, ok |-> rest.ok]

\* a variant that keeps the old store's categories in front of the document's
StoreMergedWithOld(old, n) == IF n.ok THEN old \o n.cats ELSE old

\* a variant that assigns what the loops produced whether they raised or not
StoreAssignedFirst(old, n) == n.cats

\* the store after lines 473-491: line 491 assigns the document only when the
\* loops before it raised nothing
StoreAfterImport(old, n) == IF n.ok THEN n.cats ELSE old

\* the user puts a file into the uploader: a run with a fresh buffer
Upload(doc) ==
    /\ OtherEvent
    /\ uploaded_file' = <<doc>>
    /\ file_read' = FALSE
    /\ message' = ""
    /\ pc' = AfterTab2(prompts, edit_prompt, edit_prompt_category, <<doc>>)
    /\ UNCHANGED <<prompts, all_tags, edit_prompt, edit_prompt_category,
                   current_prompt, clock, next_uuid>>
    /\ UNCHANGED <<download, browse, chat>>

\* the user takes the file out of the uploader
RemoveUpload ==
    /\ OtherEvent
    /\ uploaded_file /= <<>>
    /\ uploaded_file' = <<>>
    /\ file_read' = FALSE
    /\ message' = ""
    /\ pc' = "idle"
    /\ UNCHANGED <<prompts, all_tags, edit_prompt, edit_prompt_category,
                   current_prompt, clock, next_uuid>>
    /\ UNCHANGED <<download, browse, chat>>

\* lines 466-506 of a run that reaches tab 3 with a file in the uploader.
\* json.load reads the buffer to its end.  A later run is handed either the
\* same, exhausted buffer (json.load raises, the handler reports the error)
\* or a fresh one (the document is imported again): both occur, depending on
\* how the run was started and on the Streamlit release.
Tab3Import(fresh, d1, d2) ==
    /\ pc = "tab3"
    /\ uploaded_file /= <<>>
    /\ fresh \/ file_read
    /\ LET imported_prompts == uploaded_file[1]
           n == NormalizeDoc(imported_prompts.cats, clock, next_uuid, d1, d2)
       IN IF ~fresh
          THEN /\ message' = "Error importing prompts"
               /\ UNCHANGED <<prompts, all_tags, clock, next_uuid>>
          ELSE IF imported_prompts.kind /= "dict"
          THEN /\ message' = "Invalid prompts file format"
               /\ UNCHANGED <<prompts, all_tags, clock, next_uuid>>
          ELSE \* an exception of the loops is caught at line 505
               /\ prompts' = StoreAfterImport(prompts, n)
               /\ all_tags' = IF n.ok THEN RegenerateTags(n.cats) ELSE all_tags
               /\ clock' = n.clk
               /\ next_uuid' = n.uuid
               /\ message' = IF n.ok THEN "Prompts imported successfully!"
                             ELSE "Error importing prompts"
    /\ file_read' = TRUE
    /\ pc' = "idle"
    /\ UNCHANGED <<edit_prompt, edit_prompt_category, current_prompt,
                   uploaded_file, events, adds>>
    /\ UNCHANGED <<download, browse, chat>>

(***************************************************************************)
(* Tab 3: the export, lines 452-461, and the upload of an exported file.   *)
(* A JSON text is the tree of its values: [t |-> "object", members |-> the *)
(* pairs in order], "array" with items, "string" with s, "number" with n,  *)
(* "true", "false".  The members of a record's object are kept by name (a  *)
(* Python dict compares equal whatever the order of its keys).             *)
(***************************************************************************)
\* json.dumps of one field of a record: a list becomes an array of strings,
\* a bool true or false, an int a number, a str a string
DumpsValue(f, v) ==
    CASE f = "tags" ->
           [t |-> "array", items |-> [k \in 1..Len(v) |-> [t |-> "string", s |-> v[k]]]]
      [] f = "favorite" -> [t |-> IF v THEN "true" ELSE "false"]
      [] f = "usage_count" -> [t |-> "number", n |-> v]
      [] f = "version" ->
           IF IsNumber(v) THEN [t |-> "number", n |-> v] ELSE [t |-> "string", s |-> v]
      [] OTHER -> [t |-> "string", s |-> v]

DumpsRecord(r) ==
    [t |-> "object", members |-> [f \in DOMAIN r |-> DumpsValue(f, r[f])]]

\* a category's value: the list of its records, or the str it is
DumpsCategory(e) ==
    IF IsList(e)
    THEN [t |-> "array", items |-> [j \in 1..Len(e.recs) |-> DumpsRecord(e.recs[j])]]
    ELSE [t |-> "string", s |-> ""]

\* a variant that leaves out the categories without records
DumpsNonEmpty(d) ==
    [t |-> "object",
     members |-> [i \in 1..Len(SelectSeq(d, LAMBDA e : e.recs /= <<>>)) |->
                    [key |-> SelectSeq(d, LAMBDA e : e.recs /= <<>>)[i].cat,
                     value |-> DumpsCategory(SelectSeq(d, LAMBDA e : e.recs /= <<>>)[i])]]]

\* json.dumps(st.session_state.prompts, indent=2), line 455
Dumps(d) ==
    [t |-> "object",
     members |-> [i \in 1..Len(d) |-> [key |-> d[i].cat, value |-> DumpsCategory(d[i])]]]

\* json.load of a value inside a record
LoadsValue(j) ==
    CASE j.t = "string" -> j.s
      [] j.t = "number" -> j.n
      [] j.t = "true" -> TRUE
      [] j.t = "false" -> FALSE
      [] j.t = "array" -> [k \in 1..Len(j.items) |-> j.items[k].s]

LoadsRecord(j) == [f \in DOMAIN j.members |-> LoadsValue(j.members[f])]

LoadsCategory(key, j) ==
    IF j.t = "array"
    THEN [cat |-> key, recs |-> [k \in 1..Len(j.items) |-> LoadsRecord(j.items[k])]]
    ELSE [cat |-> key, recs |-> <<>>, json |-> j.t]

\* json.load(uploaded_file), line 468, of a file that holds an exported text
Loads(j) ==
    [kind |-> "dict",
     cats |-> [i \in 1..Len(j.members) |->
                 LoadsCategory(j.members[i].key, j.members[i].value)]]

\* "Export Prompts", lines 453-461: the text is built from the store as tab 3
\* finds it; the download button hands that text to the browser
Export ==
    /\ OtherEvent
    /\ ~EditFormCrashes(prompts, edit_prompt, edit_prompt_category)
    /\ download' = <<Dumps(prompts)>>
    /\ message' = ""
    /\ pc' = AfterTab2(prompts, edit_prompt, edit_prompt_category, uploaded_file)
    /\ UNCHANGED <<prompts, all_tags, edit_prompt, edit_prompt_category,
                   current_prompt, uploaded_file, file_read, clock, next_uuid>>
    /\ UNCHANGED <<browse, chat>>

\* the user puts the downloaded file into the uploader
UploadExport ==
    /\ download /= <<>>
    /\ Upload(Loads(download[1]))

\* the documents a file in the uploader can hold
Offered == Docs \cup {Loads(download[i]) : i \in 1..Len(download)}

(***************************************************************************)
(* The specification.                                                      *)
(***************************************************************************)
\* the displayed records: every category of the store, every position
Positions(c) == 1..Len(Get(prompts, c))

\* the edit form's name: cleared, or retyped
EditNames == {"", "Renamed"}

\* the edit form's body: cleared, or left as shown
EditBodies == {"", edit_prompt[1].prompt}

\* the edit form's tags: left as shown, or retyped
EditTags == {TagsString(edit_prompt[1].tags), TypedTags}

Next ==
    \/ \E c \in Keys(prompts) : \E i \in Positions(c) : UsePrompt(c, i)
    \/ \E c \in Keys(prompts) : \E i \in Positions(c) : ToggleFavorite(c, i)
    \/ \E c \in Keys(prompts) : \E i \in Positions(c) : EditClick(c, i)
    \/ /\ edit_prompt /= <<>>
       /\ \E edit_name \in EditNames, edit_body \in EditBodies, edit_tags \in EditTags,
             edit_category \in Keys(prompts), increment_version \in BOOLEAN,
             d1 \in Ticks, d2 \in Ticks :
             SaveEdit(edit_name, edit_body, edit_tags, edit_category,
                      increment_version, d1, d2)
    \/ CancelEdit
    \/ \E new_name \in NameInputs, new_body \in BodyInputs, new_tags \in TagInputs,
          new_category \in Keys(prompts) \cup CategoryInputs, favorite \in BOOLEAN,
          d1 \in Ticks, d2 \in Ticks :
          AddPrompt(new_name, new_body, new_tags, new_category, favorite, d1, d2)
    \/ \E c \in Keys(prompts) : \E i \in Positions(c) : DeletePrompt(c, i)
    \/ \E doc \in Docs : Upload(doc)
    \/ Export
    \/ UploadExport
    \/ RemoveUpload
    \/ \E fresh \in BOOLEAN, d1 \in Ticks, d2 \in Ticks : Tab3Import(fresh, d1, d2)

Spec == Init /\ [][Next]_vars

(***************************************************************************)
(* Tab 1: search, filters and the list of displayed records, lines         *)
(* 140-191.  A text that is searched is a sequence of characters.  Spec    *)
(* leaves the widgets at their first values and lets a click fall on any   *)
(* record of the store; SpecList is the session in which the user works    *)
(* the widgets, and a click falls on a displayed record.                   *)
(***************************************************************************)
\* str.lower() of one character
LowerChar(ch) ==
    CASE ch = "D" -> "d" [] ch = "E" -> "e" [] ch = "L" -> "l"
      [] ch = "M" -> "m" [] ch = "S" -> "s" [] ch = "T" -> "t"
      [] OTHER -> ch

\* a variant that compares the texts as typed
AsTyped(text) == text

\* str.lower()
Lower(text) == [k \in 1..Len(text) |-> LowerChar(text[k])]

\* Python's `sub in text` for two strings
In(sub, text) ==
    \E k \in 0..(Len(text) - Len(sub)) : SubSeq(text, k + 1, k + Len(sub)) = sub

\* search_match, lines 174-177
search_match(q, prompt) ==
    \/ q = <<>>
    \/ In(Lower(q), Lower(prompt.name))
    \/ In(Lower(q), Lower(prompt.description))
    \/ \E k \in 1..Len(prompt.tags) : In(Lower(q), Lower(prompt.tags[k]))

\* favorite_match, line 179
favorite_match(ff, prompt) == ~ff \/ prompt.favorite

\* tag_match, lines 181-182
tag_match(ft, prompt) == ft = {} \/ \E k \in 1..Len(prompt.tags) : prompt.tags[k] \in ft

\* the value of the "Category" box, lines 157-159: what the user chose, else
\* the session's selected category when it is a key of the store, else
\* "All Categories"
CategoryBox(d, sel, choice) ==
    IF choice /= <<>> THEN choice[1]
    ELSE IF sel /= <<>> /\ Has(d, sel[1]) THEN sel[1]
    ELSE "All Categories"

\* st.session_state.selected_category after lines 161-162
SelectedAfter(d, sel, choice) ==
    IF CategoryBox(d, sel, choice) /= "All Categories"
    THEN <<CategoryBox(d, sel, choice)>> ELSE sel

\* categories_to_search, line 168
categories_to_search(d, sel, choice) ==
    IF CategoryBox(d, sel, choice) /= "All Categories"
    THEN SelectedAfter(d, sel, choice)
    ELSE [i \in 1..Len(d) |-> d[i].cat]

\* the loops of lines 170-188: the matching records of the searched
\* categories, each copied with its category, in the order of iteration
RECURSIVE FilterCategories(_, _, _, _, _)
FilterCategories(cats, d, q, ff, ft) ==
    IF cats = <<>> THEN <<>>
    ELSE (IF Has(d, Head(cats))
          THEN SelectSeq([j \in 1..Len(Get(d, Head(cats))) |->
                             WithCategory(Get(d, Head(cats))[j], Head(cats))],
                         LAMBDA p : search_match(q, p) /\ favorite_match(ff, p)
                                    /\ tag_match(ft, p))
          ELSE <<>>)
         \o FilterCategories(Tail(cats), d, q, ff, ft)

\* a variant that orders by usage_count alone
UsageBefore(a, b) == a.usage_count > b.usage_count

\* the sort key of line 191, (not favorite, -usage_count): a sorts before b
KeyBefore(a, b) ==
    \/ a.favorite /\ ~b.favorite
    \/ a.favorite = b.favorite /\ a.usage_count > b.usage_count

\* list.sort is stable: x goes before the first element it sorts before
RECURSIVE InsertSorted(_, _)
InsertSorted(sorted, x) ==
    IF sorted = <<>> THEN <<x>>
    ELSE IF KeyBefore(x, Head(sorted)) THEN <<x>> \o sorted
    ELSE <<Head(sorted)>> \o InsertSorted(Tail(sorted), x)

\* filtered_prompts.sort(key=...), line 191
RECURSIVE SortStable(_)
SortStable(list) ==
    IF list = <<>> THEN <<>>
    ELSE InsertSorted(SortStable(SubSeq(list, 1, Len(list) - 1)), list[Len(list)])

\* filtered_prompts before the sort, for the present store and widgets
Filtered ==
    FilterCategories(categories_to_search(prompts, selected_category, category_choice),
                     prompts, search_query, filter_favorites, filter_tags)

\* filtered_prompts as displayed, lines 164-191
filtered_prompts == SortStable(Filtered)

\* a run started by a change of a widget of "Search & Filter"
BrowseEvent ==
    /\ OtherEvent
    /\ message' = ""
    /\ pc' = AfterTab2(prompts, edit_prompt, edit_prompt_category, uploaded_file)
    /\ UNCHANGED <<prompts, all_tags, edit_prompt, edit_prompt_category, current_prompt,
                   uploaded_file, file_read, clock, next_uuid, download, chat>>

\* the user types into "Search prompts", lines 145-146
SetSearch(q) ==
    /\ BrowseEvent
    /\ q /= search_query
    /\ search_query' = q
    /\ UNCHANGED <<filter_favorites, filter_tags, selected_category, category_choice>>

\* the user ticks or unticks "Favorites", line 149
SetFavorites(b) ==
    /\ BrowseEvent
    /\ b /= filter_favorites
    /\ filter_favorites' = b
    /\ UNCHANGED <<search_query, filter_tags, selected_category, category_choice>>

\* the user changes the selection of "Select tags", lines 153-154
SetTags(ts) ==
    /\ BrowseEvent
    /\ ts \subseteq all_tags
    /\ ts /= filter_tags
    /\ filter_tags' = ts
    /\ UNCHANGED <<search_query, filter_favorites, selected_category, category_choice>>

\* the user chooses in the "Category" box, lines 157-162
SelectCategory(c) ==
    /\ BrowseEvent
    /\ c \in {"All Categories"} \cup Keys(prompts)
    /\ <<c>> /= category_choice
    /\ category_choice' = <<c>>
    /\ selected_category' = SelectedAfter(prompts, selected_category, <<c>>)
    /\ UNCHANGED <<search_query, filter_favorites, filter_tags>>

\* "Use Prompt" of the k-th displayed record
UseListed(k) ==
    /\ k \in 1..Len(filtered_prompts)
    /\ UsePrompt(filtered_prompts[k].category,
                 FirstWithId(Get(prompts, filtered_prompts[k].category),
                             filtered_prompts[k].id))

\* "Favorite" of the k-th displayed record
FavoriteListed(k) ==
    /\ k \in 1..Len(filtered_prompts)
    /\ ToggleFavorite(filtered_prompts[k].category,
                      FirstWithId(Get(prompts, filtered_prompts[k].category),
                                  filtered_prompts[k].id))

\* a record of the stores of SpecList
ListRecord(id, name, description, tags, favorite, usage_count) ==
    [id |-> id, name |-> name, description |-> description, prompt |-> "{x}",
     tags |-> tags, created_at |-> 0, updated_at |-> 0, version |-> 1,
     favorite |-> favorite, usage_count |-> usage_count]

\* a store of two categories with two records each: "Essay", "Memo" (described
\* as "eSs"), "Lint" (tagged "TESt" and "ai") and "Diff"; favs are the ids of
\* the favorites, use gives the usage counts
ListStore(favs, use) ==
    << [cat |-> "Writing", recs |-> <<
          ListRecord(1, <<"E", "s", "s", "a", "y">>, <<>>, << <<"a", "i">> >>,
                     1 \in favs, use[1]),
          ListRecord(2, <<"M", "e", "m", "o">>, <<"e", "S", "s">>, <<>>,
                     2 \in favs, use[2]) >>],
       [cat |-> "Coding", recs |-> <<
          ListRecord(3, <<"L", "i", "n", "t">>, <<>>,
                     << <<"T", "E", "S", "t">>, <<"a", "i">> >>, 3 \in favs, use[3]),
          ListRecord(4, <<"D", "i", "f", "f">>, <<>>, << <<"g", "o">> >>,
                     4 \in favs, use[4]) >>] >>

ListStores ==
    {ListStore(favs, use) : favs \in {{}, {2, 3}, {4}},
                            use \in {<<0, 0, 0, 0>>, <<0, 2, 2, 1>>}}

\* what the user types into the search box
Queries == {<<>>, <<"e", "s">>, <<"E", "S">>, <<"f", "f">>}

\* a session whose store is one of ListStores, on its first run
InitList ==
    /\ prompts \in ListStores
    /\ all_tags = RegenerateTags(prompts)
    /\ edit_prompt = <<>>
    /\ edit_prompt_category = <<>>
    /\ current_prompt = <<>>
    /\ uploaded_file = <<>>
    /\ file_read = FALSE
    /\ clock = 0
    /\ next_uuid = FirstFreshId
    /\ message = ""
    /\ pc = "idle"
    /\ download = <<>>
    /\ matches = <<>>
    /\ placeholders = <<>>
    /\ search_query = <<>>
    /\ filter_favorites = FALSE
    /\ filter_tags = {}
    /\ selected_category = FirstKey(prompts)
    /\ category_choice = <<>>
    /\ events = 0
    /\ adds = 0

NextList ==
    \/ \E q \in Queries : SetSearch(q)
    \/ \E b \in BOOLEAN : SetFavorites(b)
    \/ \E ts \in SUBSET all_tags : SetTags(ts)
    \/ \E c \in {"All Categories"} \cup Keys(prompts) : SelectCategory(c)
    \/ \E k \in 1..Len(filtered_prompts) : UseListed(k)
    \/ \E k \in 1..Len(filtered_prompts) : FavoriteListed(k)

SpecList == InitList /\ [][NextList]_vars

(***************************************************************************)
(* The chat pane of main: the placeholder fields and the button "Update    *)
(* Prompt with Placeholders", lines 524-549.  A prompt body is a sequence   *)
(* of characters here.  Spec keeps bodies whole and leaves the pane out;   *)
(* SpecFill is the session in which the user works the pane on a body that *)
(* "Use Prompt" has selected.                                              *)
(***************************************************************************)
\* position of the first "}" of the text, 0 when it has none
FirstClose(text) ==
    IF \E j \in 1..Len(text) : text[j] = "}"
    THEN CHOOSE j \in 1..Len(text) :
            text[j] = "}" /\ \A i \in 1..(j - 1) : text[i] /= "}"
    ELSE 0

\* re.findall(r'\{([^}]+)\}', text), lines 535-536: at a "{" the match runs
\* to the next "}" and needs one character at least between the two; the
\* scan goes on behind a match, and one character further where none begins
RECURSIVE FindAll(_)
FindAll(text) ==
    IF text = <<>> THEN <<>>
    ELSE IF Head(text) = "{" /\ FirstClose(text) > 2
    THEN <<SubSeq(text, 2, FirstClose(text) - 1)>>
         \o FindAll(SubSeq(text, FirstClose(text) + 1, Len(text)))
    ELSE FindAll(Tail(text))

\* the condition of line 530
HasBraces(text) == "{" \in Range(text) /\ "}" \in Range(text)

\* f"{{{placeholder}}}", line 546
Braced(name) == <<"{">> \o name \o <<"}">>

\* str.replace(old, new) for a non-empty old: every occurrence, left to
\* right, without overlap, and nothing of what was put in is looked at again
RECURSIVE Replace(_, _, _)
Replace(text, old, new) ==
    IF Len(text) < Len(old) THEN text
    ELSE IF SubSeq(text, 1, Len(old)) = old
    THEN new \o Replace(SubSeq(text, Len(old) + 1, Len(text)), old, new)
    ELSE <<Head(text)>> \o Replace(Tail(text), old, new)

\* the loop of lines 545-546 over the items of the dict, in insertion order
RECURSIVE Fill(_, _)
Fill(text, items) ==
    IF items = <<>> THEN text
    ELSE Fill(Replace(text, Braced(Head(items).name), Head(items).value), Tail(items))

\* the value the field labelled name holds: what was typed into a field of
\* that label on the previous run, else the empty text
FieldValue(typed, name) ==
    IF \E k \in 1..Len(typed) : typed[k].name = name
    THEN typed[CHOOSE k \in 1..Len(typed) : typed[k].name = name].value
    ELSE <<>>

\* two calls of st.text_input with one label and no key are identical widgets
DuplicateWidgetID(names) ==
    \E i, j \in 1..Len(names) : i < j /\ names[i] = names[j]

\* lines 530-540 on one run: matches, and the dict placeholders when the loop
\* of text inputs ends; Streamlit raises DuplicateWidgetID at the second
\* field of one label
Pane(body, typed) ==
    LET found == IF body /= <<>> /\ HasBraces(body[1]) THEN FindAll(body[1]) ELSE <<>>
    IN  IF DuplicateWidgetID(found)
        THEN [matches |-> found, placeholders |-> <<>>, message |-> "DuplicateWidgetID"]
        ELSE [matches |-> found,
              placeholders |-> [k \in 1..Len(found) |->
                                  [name |-> found[k], value |-> FieldValue(typed, found[k])]],
              message |-> ""]

\* a run started in the chat pane: nothing of the library changes
ChatEvent ==
    /\ OtherEvent
    /\ UNCHANGED <<prompts, all_tags, edit_prompt, edit_prompt_category, uploaded_file,
                   file_read, clock, next_uuid, pc, download, browse>>

\* the user types v into the k-th placeholder field, line 540
TypeValue(k, v) ==
    /\ ChatEvent
    /\ k \in 1..Len(placeholders)
    /\ v /= placeholders[k].value
    /\ LET pane == Pane(current_prompt, [placeholders EXCEPT ![k].value = v])
       IN  /\ matches' = pane.matches
           /\ placeholders' = pane.placeholders
           /\ message' = pane.message
    /\ UNCHANGED current_prompt

\* "Update Prompt with Placeholders", lines 543-549: the button is there when
\* line 530 holds and the fields were laid out; the rerun of line 549 lays
\* the fields out for the filled body
UpdateClick ==
    /\ ChatEvent
    /\ current_prompt /= <<>> /\ HasBraces(current_prompt[1])
    /\ message /= "DuplicateWidgetID"
    /\ LET filled_prompt == Fill(current_prompt[1], placeholders)
           pane == Pane(<<filled_prompt>>, placeholders)
       IN  /\ current_prompt' = <<filled_prompt>>
           /\ matches' = pane.matches
           /\ placeholders' = pane.placeholders
           /\ message' = pane.message

\* bodies "Use Prompt" selects: "{a} {b}", "{b}{a}", "{x}{y}{x}", "{a{b}",
\* "{}{a}", "}{" and "Hi"
Bodies ==
    { <<"{", "a", "}", " ", "{", "b", "}">>,
      <<"{", "b", "}", "{", "a", "}">>,
      <<"{", "x", "}", "{", "y", "}", "{", "x", "}">>,
      <<"{", "a", "{", "b", "}">>,
      <<"{", "}", "{", "a", "}">>,
      <<"}", "{">>,
      <<"H", "i">> }

\* texts typed into a placeholder field: "", "Z", "{b}", "{a}"
FieldTexts == { <<>>, <<"Z">>, <<"{", "b", "}">>, <<"{", "a", "}">> }

\* a session on the run after "Use Prompt" selected one of Bodies
InitFill ==
    /\ prompts = default_prompts
    /\ all_tags = RegenerateTags(default_prompts)
    /\ edit_prompt = <<>>
    /\ edit_prompt_category = <<>>
    /\ \E body \in Bodies :
          /\ current_prompt = <<body>>
          /\ matches = Pane(<<body>>, <<>>).matches
          /\ placeholders = Pane(<<body>>, <<>>).placeholders
          /\ message = Pane(<<body>>, <<>>).message
    /\ uploaded_file = <<>>
    /\ file_read = FALSE
    /\ clock = 0
    /\ next_uuid = FirstFreshId
    /\ pc = "idle"
    /\ download = <<>>
    /\ search_query = <<>>
    /\ filter_favorites = FALSE
    /\ filter_tags = {}
    /\ selected_category = FirstKey(default_prompts)
    /\ category_choice = <<>>
    /\ events = 0
    /\ adds = 0

NextFill ==
    \/ \E k \in 1..Len(placeholders) : \E v \in FieldTexts : TypeValue(k, v)
    \/ UpdateClick

SpecFill == InitFill /\ [][NextFill]_vars

(***************************************************************************)
(* The tag filter against a changing tag index, lines 151-154.  SpecTags   *)
(* is the session in which the user selects tags in "Select tags" and also *)
(* deletes, edits and imports.                                             *)
(***************************************************************************)
\* how many tags the user selects at most
MaxSelected == 1

\* st.multiselect(options=all_tags, default=filter_tags), line 153, accepts
\* its arguments: every default value must be one of the options
TagFilterRenders == filter_tags \subseteq all_tags

\* a run in which line 153 raises StreamlitAPIException: the script ends in
\* tab 1, before any button of the library and before the chat pane
TagFilterRaises ==
    /\ OtherEvent
    /\ ~TagFilterRenders
    /\ message' = "StreamlitAPIException"
    /\ UNCHANGED <<prompts, all_tags, edit_prompt, edit_prompt_category, current_prompt,
                   uploaded_file, file_read, clock, next_uuid, pc, download, browse, chat>>

NextTags ==
    \/ /\ TagFilterRenders
       /\ \E ts \in SUBSET all_tags : Cardinality(ts) <= MaxSelected /\ SetTags(ts)
    \/ /\ TagFilterRenders
       /\ \E c \in Keys(prompts) : \E i \in Positions(c) : DeletePrompt(c, i)
    \/ /\ TagFilterRenders
       /\ \E c \in Keys(prompts) : \E i \in Positions(c) : EditClick(c, i)
    \/ /\ TagFilterRenders
       /\ edit_prompt /= <<>>
       /\ \E edit_name \in EditNames, edit_body \in EditBodies, edit_tags \in EditTags,
             edit_category \in Keys(prompts), increment_version \in BOOLEAN,
             d1 \in Ticks, d2 \in Ticks :
             SaveEdit(edit_name, edit_body, edit_tags, edit_category,
                      increment_version, d1, d2)
    \/ /\ TagFilterRenders
       /\ \E doc \in Docs : Upload(doc)
    \/ \E fresh \in BOOLEAN, d1 \in Ticks, d2 \in Ticks : Tab3Import(fresh, d1, d2)
    \/ TagFilterRaises

SpecTags == Init /\ [][NextTags]_vars

(***************************************************************************)
(* Properties.                                                             *)
(***************************************************************************)
\* the places of the store: <<position of the category, position in its list>>
Places(d) == UNION {{<<i, j>> : j \in 1..Len(d[i].recs)} : i \in 1..Len(d)}

\* the records the store holds for an identifier
Stored(d, id) == {r \in AllRecords(d) : r.id = id}

\* the last record of each category's list
LastRecords(d) == {d[i].recs[Len(d[i].recs)] : i \in {k \in 1..Len(d) : d[k].recs /= <<>>}}

\* this step is a "Save Changes" of the edit form that completed the update
UpdateCompleted ==
    /\ pc = "idle" /\ edit_prompt /= <<>> /\ events' = events + 1
    /\ message' = "Prompt updated successfully"

\* this step is a "Save Changes" of the edit form that ended in an error
UpdateFailed ==
    /\ pc = "idle" /\ edit_prompt /= <<>> /\ events' = events + 1
    /\ message' \in {"Name and prompt are required", "TypeError", "AttributeError"}

\* C1: no two records of the store share an identifier, in one category or
\* across categories.
C1_UniqueIds ==
    \A a, b \in Places(prompts) :
        a /= b => prompts[a[1]].recs[a[2]].id /= prompts[b[1]].recs[b[2]].id

\* C2: when an update completes, the updated record (appended last to its
\* category) carries the favorite flag and the usage_count that the store held
\* for its identifier immediately before the update.
C2_UpdateKeepsFavoriteAndUsage ==
    [][ (UpdateCompleted /\ Stored(prompts, edit_prompt[1].id) /= {}) =>
          \E r \in Stored(prompts, edit_prompt[1].id), u \in LastRecords(prompts') :
              /\ u.id = r.id
              /\ u.favorite = r.favorite
              /\ u.usage_count = r.usage_count ]_vars

\* C3: every record's updated_at is at or after its created_at.
C3_UpdatedNotBeforeCreated ==
    \A r \in AllRecords(prompts) : r.updated_at >= r.created_at

\* C4: an update leaves the record's version equal to the version the store
\* held for the identifier before the call, or exactly 1 above it.
C4_VersionStepsByZeroOrOne ==
    [][ (UpdateCompleted /\ Stored(prompts, edit_prompt[1].id) /= {}) =>
          \E r \in Stored(prompts, edit_prompt[1].id), u \in LastRecords(prompts') :
              /\ u.id = r.id
              /\ u.version \in {r.version, r.version + 1} ]_vars

\* C5: a "Save Changes" for an identifier the store holds no record of does
\* not complete the update and puts no record with that identifier into the store.
C5_UpdateOfUnknownIdAddsNothing ==
    [][ ( /\ pc = "idle" /\ edit_prompt /= <<>> /\ events' = events + 1
          /\ Stored(prompts, edit_prompt[1].id) = {} ) =>
          /\ message' /= "Prompt updated successfully"
          /\ Stored(prompts', edit_prompt[1].id) = {} ]_vars

\* C6: an update that ends in an error leaves the store and the tag index as
\* they were.
C6_FailedUpdateChangesNothing ==
    [][ UpdateFailed => (prompts' = prompts /\ all_tags' = all_tags) ]_vars

\* a string that is empty or only whitespace
IsBlank(text) == text \in {"", " "}

\* C7: a submit of the add form with a blank (empty or whitespace-only) name or
\* body reports the validation error and leaves the store and the tag index
\* unchanged.
C7_CreateRejectsBlank ==
    [][ \A new_name \in NameInputs, new_body \in BodyInputs, new_tags \in TagInputs,
           new_category \in Keys(prompts) \cup CategoryInputs, favorite \in BOOLEAN,
           d1 \in Ticks, d2 \in Ticks :
           ( /\ AddPrompt(new_name, new_body, new_tags, new_category, favorite, d1, d2)
             /\ (IsBlank(new_name) \/ IsBlank(new_body)) ) =>
           ( /\ message' = "Name and prompt are required"
             /\ prompts' = prompts
             /\ all_tags' = all_tags ) ]_vars

\* C8: no category key of the store maps to an empty list.
C8_NoEmptyCategory == \A i \in 1..Len(prompts) : prompts[i].recs /= <<>>

\* the categories whose list this step changed or created and which now end
\* with a record of the given identifier: where an update put its record
PutInto(id) ==
    {c \in Keys(prompts') :
        /\ Get(prompts', c) /= <<>>
        /\ Get(prompts', c)[Len(Get(prompts', c))].id = id
        /\ ~Has(prompts, c) \/ Get(prompts, c) /= Get(prompts', c)}

\* C9: after a delete, and after an update that puts the record into another
\* category, a category in which the record was the only one is no key of the
\* store.
C9_LastRecordGoneCategoryGone ==
    [][ /\ \A c \in Keys(prompts) : \A i \in Positions(c) :
              (DeletePrompt(c, i) /\ Len(Get(prompts, c)) = 1) => c \notin Keys(prompts')
        /\ UpdateCompleted =>
              \A c \in Keys(prompts) :
                  ( /\ Len(Get(prompts, c)) = 1
                    /\ Get(prompts, c)[1].id = edit_prompt[1].id
                    /\ PutInto(edit_prompt[1].id) \ {c} /= {} )
                  => c \notin Keys(prompts') ]_vars

\* C10: the tag index is exactly the union of the tags of the records in the store.
C10_TagIndexIsUnion == all_tags = RegenerateTags(prompts)

\* this step is the import of tab 3 (lines 466-506) for the document doc
ImportStep(doc) == pc = "tab3" /\ uploaded_file = <<doc>> /\ pc' = "idle"

\* the messages with which the import reports an error (lines 504, 506)
ImportErrors == {"Invalid prompts file format", "Error importing prompts"}

WellShaped(doc) ==
    /\ doc.kind = "dict"
    /\ \A i \in 1..Len(doc.cats) :
          /\ IsList(doc.cats[i])
          /\ \A j \in 1..Len(doc.cats[i].recs) : IsMapping(doc.cats[i].recs[j])

\* C12: the import of a document of another shape reports an error and the
\* document does not become the store.
C12_ImportRejectsMalformed ==
    [][ \A doc \in Offered :
           (ImportStep(doc) /\ ~WellShaped(doc)) =>
           (message' \in ImportErrors /\ prompts' = prompts) ]_vars

\* this step is an import of doc that succeeded (line 502)
ImportSucceeds(doc) == ImportStep(doc) /\ message' = "Prompts imported successfully!"

\* the fields the import back-fills
BackfilledFields ==
    {"id", "created_at", "updated_at", "version", "tags", "favorite", "usage_count"}

\* v is the default of field f for this step: an identifier drawn in the step,
\* a clock reading of the step, version 1, no tags, not a favorite, never used
IsDefault(f, v) ==
    CASE f = "id" -> v \in next_uuid..(next_uuid' - 1)
      [] f \in {"created_at", "updated_at"} -> v \in clock..clock'
      [] f = "version" -> v = 1
      [] f = "tags" -> v = <<>>
      [] f = "favorite" -> v = FALSE
      [] f = "usage_count" -> v = 0

\* C13: after a successful import every record has the seven fields, a field
\* the entry held keeps its value, an absent one has its default (identifiers
\* drawn for different entries differ), and normalizing the store again
\* changes nothing.
C13_ImportBackfillsDefaults ==
    [][ \A doc \in Offered : ImportSucceeds(doc) =>
          /\ Len(prompts') = Len(doc.cats)
          /\ \A i \in 1..Len(doc.cats) :
                /\ Len(prompts'[i].recs) = Len(doc.cats[i].recs)
                /\ \A j \in 1..Len(doc.cats[i].recs) :
                      LET e == doc.cats[i].recs[j]
                          r == prompts'[i].recs[j]
                      IN /\ BackfilledFields \subseteq DOMAIN r
                         /\ \A f \in BackfilledFields :
                               IF f \in DOMAIN e THEN r[f] = e[f] ELSE IsDefault(f, r[f])
          /\ \A a, b \in Places(doc.cats) :
                ( /\ a /= b
                  /\ "id" \notin DOMAIN doc.cats[a[1]].recs[a[2]]
                  /\ "id" \notin DOMAIN doc.cats[b[1]].recs[b[2]] )
                => prompts'[a[1]].recs[a[2]].id /= prompts'[b[1]].recs[b[2]].id
          /\ \A d1 \in Ticks, d2 \in Ticks :
                NormalizeDoc(prompts', clock', next_uuid', d1, d2).cats = prompts' ]_vars

\* C13 happens: the store holds an imported record whose identifier was
\* drawn by the import and one whose version is the incoming one.
C13_Witness ==
    /\ uploaded_file = <<DocBackup>>
    /\ message = "Prompts imported successfully!"
    /\ \E r \in AllRecords(prompts) : r.name = "Note" /\ r.id >= FirstFreshId /\ r.version = 1
    /\ \E r \in AllRecords(prompts) : r.name = "Imported" /\ r.version = StrVersion

\* C15: after a successful import the store has the document's categories in
\* the document's order, each with the document's entries in their order,
\* and no category or record of the old store that the document lacks.
C15_ImportReplacesStore ==
    [][ \A doc \in Offered : ImportSucceeds(doc) =>
          /\ [i \in 1..Len(prompts') |-> prompts'[i].cat]
               = [i \in 1..Len(doc.cats) |-> doc.cats[i].cat]
          /\ \A i \in 1..Len(doc.cats) :
                [j \in 1..Len(prompts'[i].recs) |->
                    <<prompts'[i].recs[j].name, prompts'[i].recs[j].prompt>>]
                = [j \in 1..Len(doc.cats[i].recs) |->
                    <<doc.cats[i].recs[j].name, doc.cats[i].recs[j].prompt>>]
          /\ \A c \in Keys(prompts) \ Keys(doc.cats) : c \notin Keys(prompts')
          /\ \A r \in AllRecords(prompts) :
                (\A e \in AllRecords(doc.cats) : e.name /= r.name)
                => (\A u \in AllRecords(prompts') : u.name /= r.name) ]_vars

\* C15 happens: an import replaced the default store, whose categories
\* "Analysis", "Coding" and "Claude Specific" the document lacks.
C15_Witness ==
    /\ uploaded_file = <<DocMoved>>
    /\ message = "Prompts imported successfully!"
    /\ Keys(prompts) = {"Writing", "Archive"}

\* C14: importing the text exported from the present store leaves the store
\* as it is (categories, their order, the records and all their fields), and
\* the first read of that file succeeds.
C14_ExportImportRoundTrip ==
    [][ ( /\ pc = "tab3" /\ pc' = "idle"
          /\ download /= <<>>
          /\ download[1] = Dumps(prompts)
          /\ uploaded_file = <<Loads(download[1])>> ) =>
        ( /\ prompts' = prompts
          /\ ~file_read => message' = "Prompts imported successfully!" ) ]_vars

\* C14 happens: a store that is no longer the default one was exported and
\* the exported file imported.
C14_Witness ==
    /\ download /= <<>>
    /\ download[1] = Dumps(prompts)
    /\ uploaded_file = <<Loads(download[1])>>
    /\ message = "Prompts imported successfully!"
    /\ prompts /= default_prompts

\* C16: from every state, an accepted submit of the add form followed at once
\* by the delete of the record it created gives back the store (categories,
\* records, their order), and the tag index when no record of the store
\* carries one of the new record's tags.
C16_CreateThenDeleteRestores ==
    edit_prompt = <<>> =>
    \A new_name \in NameInputs \ {""}, new_body \in BodyInputs \ {""},
       new_tags \in TagInputs, new_category \in Keys(prompts) \cup CategoryInputs,
       favorite \in BOOLEAN :
       LET obj == NewPromptObj(next_uuid, new_name, "", new_body, ParseTags(new_tags),
                               favorite, clock, clock)
           created == StoreAfterAdd(prompts, new_category, obj)
           deleted == StoreAfterDelete(created, new_category, obj.id)
       IN Appendable(WithNewCategory(prompts, new_category), new_category) =>
          /\ deleted = prompts
          /\ (Range(obj.tags) \cap RegenerateTags(prompts) = {}) =>
                RegenerateTags(deleted) = all_tags

\* the record at a place of a store
At(d, p) == d[p[1]].recs[p[2]]

\* this step changed the record at place p in field f at most, and nothing
\* else of the store: the categories, their order, the lists' lengths and
\* every other record are as before
OnlyFieldChanged(p, f) ==
    /\ [i \in 1..Len(prompts') |-> prompts'[i].cat] = [i \in 1..Len(prompts) |-> prompts[i].cat]
    /\ Places(prompts') = Places(prompts)
    /\ \A q \in Places(prompts) \ {p} : At(prompts', q) = At(prompts, q)
    /\ DOMAIN At(prompts', p) = DOMAIN At(prompts, p)
    /\ \A g \in DOMAIN At(prompts, p) \ {f} : At(prompts', p)[g] = At(prompts, p)[g]

SameLetter(a, b) ==
    \/ a = b
    \/ {a, b} \in {{"D", "d"}, {"E", "e"}, {"L", "l"}, {"M", "m"}, {"S", "s"}, {"T", "t"}}

\* sub occurs in text when case is ignored
Within(sub, text) ==
    \E k \in 0..(Len(text) - Len(sub)) :
       \A i \in 1..Len(sub) : SameLetter(sub[i], text[k + i])

\* the record matches the filter of the widgets
Matches(r) ==
    /\ \/ search_query = <<>>
       \/ Within(search_query, r.name)
       \/ Within(search_query, r.description)
       \/ \E k \in 1..Len(r.tags) : Within(search_query, r.tags[k])
    /\ ~filter_favorites \/ r.favorite
    /\ filter_tags = {} \/ \E k \in 1..Len(r.tags) : r.tags[k] \in filter_tags

\* the categories the "Category" box asks for
Searched ==
    IF CategoryBox(prompts, selected_category, category_choice) = "All Categories"
    THEN Keys(prompts)
    ELSE {CategoryBox(prompts, selected_category, category_choice)} \cap Keys(prompts)

\* the places of the searched categories whose record matches
MatchingPlaces ==
    {p \in Places(prompts) : prompts[p[1]].cat \in Searched /\ Matches(At(prompts, p))}

\* C19: the displayed list holds a record of the searched categories exactly
\* when the search text is empty or occurs, case ignored, in its name, its
\* description or one of its tags, and the Favorites box is unticked or the
\* record is a favorite, and no tag is selected or the record has a selected
\* tag; every matching record is listed once and nothing else is listed.
C19_ListIsExactlyTheMatches ==
    /\ \A p \in Places(prompts) :
          prompts[p[1]].cat \in Searched =>
             (Matches(At(prompts, p)) <=>
                \E k \in 1..Len(filtered_prompts) :
                   filtered_prompts[k] = WithCategory(At(prompts, p), prompts[p[1]].cat))
    /\ \A k \in 1..Len(filtered_prompts) :
          \E p \in MatchingPlaces :
             filtered_prompts[k] = WithCategory(At(prompts, p), prompts[p[1]].cat)
    /\ Len(filtered_prompts) = Cardinality(MatchingPlaces)

\* C19 happens: the search text "ES" with all categories searched lists
\* "Essay" (by name), "Memo" (by description "eSs") and "Lint" (by tag "TESt")
\* and leaves "Diff" out.
C19_Witness ==
    /\ search_query = <<"E", "S">>
    /\ category_choice = <<"All Categories">>
    /\ {filtered_prompts[k].id : k \in 1..Len(filtered_prompts)} = {1, 2, 3}

\* the place in the store of a listed record
PlaceOf(listed) ==
    CHOOSE p \in Places(prompts) :
       listed = WithCategory(At(prompts, p), prompts[p[1]].cat)

\* iteration meets place p before place q: category order, then the order
\* within the category
MetBefore(p, q) == p[1] < q[1] \/ (p[1] = q[1] /\ p[2] < q[2])

\* C20: in the displayed list every favorite precedes every non-favorite,
\* within the favorites and within the others usage_count descends, and
\* records equal in both stand in the order in which the loops met them;
\* the sort neither drops nor adds a record.
C20_ListOrder ==
    /\ \A i, j \in 1..Len(filtered_prompts) :
          i < j =>
             LET a == filtered_prompts[i]
                 b == filtered_prompts[j]
             IN  /\ b.favorite => a.favorite
                 /\ a.favorite = b.favorite => a.usage_count >= b.usage_count
                 /\ (a.favorite = b.favorite /\ a.usage_count = b.usage_count)
                       => MetBefore(PlaceOf(a), PlaceOf(b))
    /\ Len(filtered_prompts) = Len(Filtered)
    /\ Range(filtered_prompts) = Range(Filtered)

\* C20 happens: with every category searched the loops meet "Essay", "Memo",
\* "Lint", "Diff"; the favorites "Memo" and "Lint", used twice each, come
\* first in that order, then "Diff", used once, then "Essay", never used.
C20_Witness ==
    /\ category_choice = <<"All Categories">>
    /\ [k \in 1..Len(Filtered) |-> Filtered[k].id] = <<1, 2, 3, 4>>
    /\ [k \in 1..Len(filtered_prompts) |-> filtered_prompts[k].id] = <<2, 3, 4, 1>>
    /\ filtered_prompts[1].usage_count = 2 /\ filtered_prompts[2].usage_count = 2

\* the step is a successful "Add Prompt" into new_category with that favorite box
Added(new_category, favorite) ==
    /\ message' = "Added"
    /\ \E new_name \in NameInputs, new_body \in BodyInputs, new_tags \in TagInputs,
          d1 \in Ticks, d2 \in Ticks :
          AddPrompt(new_name, new_body, new_tags, new_category, favorite, d1, d2)

\* the list of the category, empty when the category is no key of the store
ListOf(d, c) == IF Has(d, c) THEN Get(d, c) ELSE <<>>

RECURSIVE OnePass(_, _)
OnePass(text, items) ==
    IF text = <<>> THEN <<>>
    ELSE IF Head(text) = "{" /\ FirstClose(text) > 2
    THEN LET name == SubSeq(text, 2, FirstClose(text) - 1)
             keyed == {k \in 1..Len(items) : items[k].name = name}
         IN  (IF keyed = {} THEN Braced(name) ELSE items[CHOOSE k \in keyed : TRUE].value)
             \o OnePass(SubSeq(text, FirstClose(text) + 1, Len(text)), items)
    ELSE <<Head(text)>> \o OnePass(Tail(text), items)

\* C22: "Update Prompt with Placeholders" leaves the body that one pass over
\* the original body gives: every occurrence {name} replaced by the value
\* typed for name, and no text that came in as a value substituted again.
C22_FillIsOnePass ==
    [][ UpdateClick => current_prompt' = <<OnePass(current_prompt[1], placeholders)>> ]_vars

\* the names of a list in the order of their first appearance, each once
FirstAppearances(names) ==
    SelectSeq([k \in 1..Len(names) |-> [at |-> k, name |-> names[k]]],
              LAMBDA e : \A i \in 1..(e.at - 1) : names[i] /= e.name)

\* C23: for the selected body the pane offers the names enclosed between a
\* "{" and the next "}", in the order of their first appearance and each
\* once, also when a name occurs several times in the body.
C23_ExtractListsEachNameOnce ==
    (current_prompt /= <<>> /\ HasBraces(current_prompt[1])) =>
       /\ message /= "DuplicateWidgetID"
       /\ [k \in 1..Len(placeholders) |-> placeholders[k].name]
             = [k \in 1..Len(FirstAppearances(FindAll(current_prompt[1]))) |->
                  FirstAppearances(FindAll(current_prompt[1]))[k].name]

\* the import block of a run, for a file that an earlier run has read already
ImportAgain == pc = "tab3" /\ file_read /\ pc' = "idle"

\* C24: an uploaded document is imported once: the import block of a later
\* run, with the file still in the uploader, leaves the store as the
\* handlers of that run left it, identifiers included.
C24_ImportAppliedOnce ==
    [][ ImportAgain => prompts' = prompts ]_vars

\* C25: while an edit is pending, edit_prompt_category is set, is a key of
\* the store, and its list holds a record with the identifier of the
\* snapshot edit_prompt, whatever was done since the click on Edit.
C25_PendingEditHasItsRecord ==
    edit_prompt /= <<>> =>
       /\ edit_prompt_category /= <<>>
       /\ Has(prompts, edit_prompt_category[1])
       /\ \E r \in Range(ListOf(prompts, edit_prompt_category[1])) : r.id = edit_prompt[1].id

\* C26: the tags selected in "Select tags" are among the tags of the tag
\* index, which are the options of that box, also after a delete, an edit
\* or an import took the last record with a selected tag away.
C26_SelectedTagsAreOptions == filter_tags \subseteq all_tags
====
